---- MODULE Spec2Model ----
(***************************************************************************)
(* Model of the pagination-to-stream adapter `make_stream` of              *)
(* src/helix/client/client_ext.rs: the StateMode state machine driven by   *)
(* futures::stream::unfold, one pull at a time, against a paginated        *)
(* server.                                                                 *)
(*                                                                         *)
(* Option<T> is modelled as a sequence of length at most one: <<>> is      *)
(* None, <<x>> is Some(x).                                                 *)
(***************************************************************************)
EXTENDS Integers, Sequences, FiniteSets, TLC

\* ---- bounds of the model ------------------------------------------------
MaxPages == 3      \* pages a server holds at most
MaxLen   == 2      \* items one page payload holds at most
MaxPagesTwo == 2   \* pages of the servers of the two-stream and convenience specifications

\* The adapter never inspects an item, so the servers of the model hold
\* pairwise different items: item i of page k is (k - 1) * MaxLen + i.
Items == 1..(MaxPages * MaxLen)

\* The kinds of error one executor call can return (spec section 7).
ErrorKinds == {"transport", "authorization", "decode", "server"}

None == <<>>
Some(x) == <<x>>

\* ---- sequences ----------------------------------------------------------
SeqsUpTo(S, n) == UNION {[1..k -> S] : k \in 0..n}

RECURSIVE Concat(_)
\* Concatenation of a sequence of sequences.
Concat(ss) == IF ss = <<>> THEN <<>> ELSE Head(ss) \o Concat(Tail(ss))

IsPrefix(a, b) == Len(a) <= Len(b) /\ SubSeq(b, 1, Len(a)) = a

\* ---- the server behind the executor ------------------------------------
\* One page of the server: either the call for it fails with `err`, or it
\* answers with a payload `data` and, when `cursor`, a pagination cursor.
OkPage(data, cursor) == [ok |-> TRUE, data |-> data, cursor |-> cursor, err |-> "none"]
ErrPage(e) == [ok |-> FALSE, data |-> <<>>, cursor |-> FALSE, err |-> e]

\* The payload of page k when it holds n items.
Payload(k, n) == [i \in 1..n |-> (k - 1) * MaxLen + i]

\* What one page can be, its position aside: a failure of some kind, or an
\* answer of n items with or without a cursor.
Pages == {OkPage(<<>>, c) : c \in BOOLEAN} \cup {ErrPage(e) : e \in ErrorKinds}

PageShapes == (Pages \X {0}) \cup ({OkPage(<<>>, c) : c \in BOOLEAN} \X (1..MaxLen))

\* The server a sequence of page shapes describes.
ServerOf(shapes) ==
    [k \in 1..Len(shapes) |->
        IF shapes[k][1].ok
        THEN OkPage(Payload(k, shapes[k][2]), shapes[k][1].cursor)
        ELSE shapes[k][1]]

\* A server holds finitely many pages: its last page answers without a
\* cursor, or the call for it fails.
Servers == {ServerOf(sh) : sh \in {x \in SeqsUpTo(PageShapes, MaxPages) :
              /\ Len(x) >= 1
              /\ ~(x[Len(x)][1].ok /\ x[Len(x)][1].cursor)}}

\* ---- requests, responses, results ---------------------------------------
\* A paginated request; `after` is its Option<Cursor>.
Request(after) == [after |-> after]

\* A variant of set_pagination that builds the request of a later page
\* afresh from the query and the cursor, with the other fields at their
\* defaults.
set_pagination_fresh(req, cursor) ==
    [req EXCEPT !.after = cursor, !.first = None, !.live_only = None]

\* Paginated::set_pagination: the cursor field is replaced.
set_pagination(req, cursor) == [req EXCEPT !.after = cursor]

\* The response envelope: payload, Option<Cursor>, Option<Req>.
Response(data, pagination, request) ==
    [data |-> data, pagination |-> pagination, request |-> request]

Ok(d) == [ok |-> TRUE, item |-> d, err |-> "none"]
Err(e) == [ok |-> FALSE, item |-> 0, err |-> e]

\* The page a request addresses: the first page without a cursor, the page
\* after page k with the cursor that page k's response carried (token k).
PageOfReq(req) == IF req.after = None THEN 1 ELSE req.after[1] + 1

\* The number of the page a response holds.
PageOf(resp) == PageOfReq(resp.request[1])

\* ---- the credential and the convenience calls --------------------------
NumUsers == 2      \* distinct user ids

UserIds == 1..NumUsers

\* TwitchToken: all the adapter and the helpers read of it is user_id().
Token(user_id) == [user_id |-> user_id]

Tokens == {Token(None)} \cup {Token(Some(u)) : u \in UserIds}

\* A call of a convenience function: its name and argument, where it stands,
\* the calls it handed to the executor, the answers the executor gave, and
\* its result once it returned.
Op(name, arg, pc) ==
    [name |-> name, arg |-> arg, pc |-> pc, calls |-> <<>>, answers |-> <<>>,
     result |-> None]

\* make_stream called directly, by no convenience function.
NoOp == Op("make_stream", None, "done")

\* ClientRequestError::Custom
Custom(msg) == msg

\* ---- the executor (external collaborator) ------------------------------
\* HelixClient::req_get: one round trip.  The answer depends only on the
\* request: the page it addresses, with the request retained in the
\* response and the page's number as its cursor token.
req_get(sv, req) ==
    LET k == PageOfReq(req) IN
    IF sv[k].ok
    THEN [ok |-> TRUE,
          resp |-> Some(Response(sv[k].data,
                                 IF sv[k].cursor THEN Some(k) ELSE None,
                                 Some(req))),
          err |-> "none"]
    ELSE [ok |-> FALSE, resp |-> None, err |-> sv[k].err]

\* Response::get_next, first half: the request of the continuation call,
\* None when the response carries no cursor (then no call is made and the
\* continuation is Ok(None)).
next_request(resp) ==
    IF resp.request # None /\ resp.pagination # None
    THEN Some(set_pagination(resp.request[1], resp.pagination))
    ELSE None

\* ---- StateMode ----------------------------------------------------------
ModeReq(r)      == [tag |-> "Req", req |-> r, resp |-> None, deq |-> <<>>]
ModeCont(r, d)  == [tag |-> "Cont", req |-> None, resp |-> Some(r), deq |-> d]
ModeNext(r)     == [tag |-> "Next", req |-> None, resp |-> r, deq |-> <<>>]
ModeFailed      == [tag |-> "Failed", req |-> None, resp |-> None, deq |-> <<>>]

\* StateMode::take_initial: std::mem::take of the request out of Req(Some).
\* `panic` is the todo!("hmmm") branch.
take_initial(mode) ==
    IF mode.tag = "Req" /\ mode.req # None
    THEN [panic |-> FALSE, val |-> mode.req, mode |-> ModeReq(None)]
    ELSE [panic |-> TRUE, val |-> None, mode |-> mode]

\* StateMode::take_next: std::mem::take of the response out of Next(Some).
take_next(mode) ==
    IF mode.tag = "Next" /\ mode.resp # None
    THEN [panic |-> FALSE, val |-> mode.resp, mode |-> ModeNext(None)]
    ELSE [panic |-> TRUE, val |-> None, mode |-> mode]

\* State::process
process(r, d) == ModeCont(r, d)

\* A variant of State::failed that keeps the stream retrying: the mode goes
\* back to the initial request instead of Failed.
failed_retry == ModeReq(Some(Request(None)))

\* State::failed
failed == ModeFailed

\* State::get_next: Cont(r, d) with d empty becomes Next(Some(r)); the
\* assert! and the panic!("oops") branch are `panic`.
get_next(mode) ==
    IF mode.tag = "Cont"
    THEN IF mode.deq = <<>>
         THEN [panic |-> FALSE, mode |-> ModeNext(mode.resp)]
         ELSE [panic |-> TRUE, mode |-> mode]
    ELSE [panic |-> TRUE, mode |-> mode]

\* The extraction function handed to make_stream; every call site of the
\* façade builds the deque from the payload's items, front first.
fun(data) == [i \in 1..Len(data) |-> data[i]]

\* A variant of pop_front that takes the item from the back of the deque.
pop_back(deq) == [item |-> deq[Len(deq)], rest |-> SubSeq(deq, 1, Len(deq) - 1)]

\* VecDeque::pop_front on a non-empty deque: the item and the rest.
pop_front(deq) == [item |-> Head(deq), rest |-> Tail(deq)]

\* ---- the stream ---------------------------------------------------------
VARIABLES
    server,   \* the pages the executor answers with
    stream,   \* per stream instance: the unfold state and its observations
    token,    \* the credential handed to the client
    op        \* the call of a convenience function: arguments, progress, result

vars == <<server, stream, token, op>>

\* The stream instances that exist.
Instances == DOMAIN stream

\* A variant of make_stream that hands the initial request to the executor
\* at construction instead of at the first pull.
make_stream_eager(req) ==
    [mode     |-> ModeReq(None),
     pc       |-> "awaitReq",
     inflight |-> {req},
     calls    |-> <<req>>,
     out      |-> <<>>,
     pulls    |-> 0,
     fetched  |-> <<>>,
     asked    |-> <<>>]

\* make_stream: State { mode: Req(Some(req)), client, token } handed to
\* futures::stream::unfold.  Besides `mode`, a stream records where the
\* current pull stands (`pc`), the calls awaited (`inflight`), every call
\* issued (`calls`), every item handed to the consumer (`out`), the pulls
\* begun (`pulls`), the pages received (`fetched`) and the responses asked
\* for their continuation (`asked`).
make_stream(req) ==
    [mode     |-> ModeReq(Some(req)),
     pc       |-> "idle",
     inflight |-> {},
     calls    |-> <<>>,
     out      |-> <<>>,
     pulls    |-> 0,
     fetched  |-> <<>>,
     asked    |-> <<>>]

\* resp.get_next(client, token) is invoked on a response: the page it holds
\* and whether it carries a cursor.
asking(resp) == [page |-> PageOf(resp), cursor |-> resp.pagination # None]

\* The executor is handed a request: the call is recorded and in flight.
issue(st, req, at) ==
    [st EXCEPT !.inflight = @ \cup {req}, !.calls = Append(@, req), !.pc = at]

\* StateMode::Req(Some(_)) arm up to the await: the initial request is
\* taken out of the mode and handed to the executor.
arm_req_call(st) ==
    LET t == take_initial(st.mode) IN
    IF t.panic THEN [st EXCEPT !.pc = "panicked"]
    ELSE issue([st EXCEPT !.mode = t.mode], t.val[1], "awaitReq")

\* A variant of the Req arm that reports a first page without items as a
\* decode error instead of ending the stream.
arm_req_resume_strict(sv, st) ==
    LET req == CHOOSE r \in st.inflight : TRUE
        f   == req_get(sv, req)
        st1 == [st EXCEPT !.inflight = @ \ {req}]
    IN  IF ~f.ok
        THEN [st1 EXCEPT !.out = Append(@, Err(f.err)), !.mode = failed,
                         !.pc = "idle"]
        ELSE LET resp == f.resp[1]
                 deq  == fun(resp.data)
                 st2  == [st1 EXCEPT !.fetched = Append(@, PageOf(resp))]
             IN  IF deq = <<>>
                 THEN [st2 EXCEPT !.out = Append(@, Err("decode")),
                                  !.mode = failed, !.pc = "idle"]
                 ELSE LET p == pop_front(deq) IN
                      [st2 EXCEPT !.out = Append(@, Ok(p.item)),
                                  !.mode = process(resp, p.rest),
                                  !.pc = "idle"]

\* A variant of the Req arm that hands out the Err of a failed call without
\* state.failed(): the state goes back as it is.
arm_req_resume_nofail(sv, st) ==
    LET req == CHOOSE r \in st.inflight : TRUE
        f   == req_get(sv, req)
        st1 == [st EXCEPT !.inflight = @ \ {req}]
    IN  IF ~f.ok
        THEN [st1 EXCEPT !.out = Append(@, Err(f.err)), !.pc = "idle"]
        ELSE LET resp == f.resp[1]
                 deq  == fun(resp.data)
                 st2  == [st1 EXCEPT !.fetched = Append(@, PageOf(resp))]
             IN  IF deq = <<>>
                 THEN [st2 EXCEPT !.pc = "ended"]
                 ELSE LET p == pop_front(deq) IN
                      [st2 EXCEPT !.out = Append(@, Ok(p.item)),
                                  !.mode = process(resp, p.rest),
                                  !.pc = "idle"]

\* StateMode::Req(Some(_)) arm after the await.
arm_req_resume(sv, st) ==
    LET req == CHOOSE r \in st.inflight : TRUE
        f   == req_get(sv, req)
        st1 == [st EXCEPT !.inflight = @ \ {req}]
    IN  IF ~f.ok
        THEN [st1 EXCEPT !.out = Append(@, Err(f.err)), !.mode = failed,
                         !.pc = "idle"]
        ELSE LET resp == f.resp[1]
                 deq  == fun(resp.data)
                 st2  == [st1 EXCEPT !.fetched = Append(@, PageOf(resp))]
             IN  IF deq = <<>>
                 THEN [st2 EXCEPT !.pc = "ended"]
                 ELSE LET p == pop_front(deq) IN
                      [st2 EXCEPT !.out = Append(@, Ok(p.item)),
                                  !.mode = process(resp, p.rest),
                                  !.pc = "idle"]

\* A variant of the Cont arm that asks for the next page as soon as the
\* buffer runs empty, in the pull that yields the page's last item.
arm_cont_prefetch(st) ==
    IF st.mode.deq # <<>>
    THEN LET p    == pop_front(st.mode.deq)
             resp == st.mode.resp[1]
             nr   == next_request(resp)
         IN  IF p.rest = <<>> /\ nr # None
             THEN issue([st EXCEPT !.out = Append(@, Ok(p.item)),
                                   !.mode = ModeNext(None)], nr[1], "awaitNext")
             ELSE IF p.rest = <<>>
             THEN [st EXCEPT !.out = Append(@, Ok(p.item)),
                             !.mode = ModeNext(Some(resp))]
             ELSE [st EXCEPT !.out = Append(@, Ok(p.item)),
                             !.mode = ModeCont(resp, p.rest)]
    ELSE [st EXCEPT !.pc = "ended"]

\* A variant of the Cont arm that ends the stream when the pop empties the
\* buffer, without yielding the popped item.
arm_cont_droplast(st) ==
    IF st.mode.deq # <<>>
    THEN LET p == pop_front(st.mode.deq) IN
         IF p.rest = <<>>
         THEN [st EXCEPT !.pc = "ended"]
         ELSE [st EXCEPT !.out = Append(@, Ok(p.item)),
                         !.mode = ModeCont(st.mode.resp[1], p.rest)]
    ELSE [st EXCEPT !.pc = "ended"]

\* A variant of the Cont arm that starts the call for the next page in the
\* background when the buffer runs empty and returns without awaiting it.
arm_cont_spawn(st) ==
    IF st.mode.deq # <<>>
    THEN LET p    == pop_front(st.mode.deq)
             resp == st.mode.resp[1]
             nr   == next_request(resp)
         IN  IF p.rest = <<>> /\ nr # None
             THEN issue([st EXCEPT !.out = Append(@, Ok(p.item)),
                                   !.mode = ModeNext(Some(resp))], nr[1], "idle")
             ELSE IF p.rest = <<>>
             THEN [st EXCEPT !.out = Append(@, Ok(p.item)),
                             !.mode = ModeNext(Some(resp))]
             ELSE [st EXCEPT !.out = Append(@, Ok(p.item)),
                             !.mode = ModeCont(resp, p.rest)]
    ELSE [st EXCEPT !.pc = "ended"]

\* A variant of the Cont arm that calls get_next when it sees the last item
\* in the deque, before popping it.
arm_cont_peek(st) ==
    IF st.mode.deq # <<>>
    THEN LET p  == pop_front(st.mode.deq)
             m1 == ModeCont(st.mode.resp[1], p.rest)
         IN  IF Len(st.mode.deq) = 1
             THEN LET g == get_next(st.mode) IN
                  IF g.panic THEN [st EXCEPT !.pc = "panicked"]
                  ELSE [st EXCEPT !.out = Append(@, Ok(p.item)),
                                  !.mode = g.mode]
             ELSE [st EXCEPT !.out = Append(@, Ok(p.item)), !.mode = m1]
    ELSE [st EXCEPT !.pc = "ended"]

\* StateMode::Cont(_, ref mut deq) arm.
arm_cont(st) ==
    IF st.mode.deq # <<>>
    THEN LET p  == pop_front(st.mode.deq)
             m1 == ModeCont(st.mode.resp[1], p.rest)
         IN  IF p.rest = <<>>
             THEN LET g == get_next(m1) IN
                  IF g.panic THEN [st EXCEPT !.mode = m1, !.pc = "panicked"]
                  ELSE [st EXCEPT !.out = Append(@, Ok(p.item)),
                                  !.mode = g.mode]
             ELSE [st EXCEPT !.out = Append(@, Ok(p.item)), !.mode = m1]
    ELSE \* New request returned empty.
         [st EXCEPT !.pc = "ended"]

\* A variant of the Next arm that, when the response carries no cursor,
\* awaits a continuation that was never issued instead of ending.
arm_next_call_hang(st) ==
    LET t == take_next(st.mode) IN
    IF t.panic THEN [st EXCEPT !.pc = "panicked"]
    ELSE LET nr  == next_request(t.val[1])
             st1 == [st EXCEPT !.mode = t.mode, !.asked = Append(@, asking(t.val[1]))]
         IN  IF nr = None
             THEN [st1 EXCEPT !.pc = "awaitNext"]
             ELSE issue(st1, nr[1], "awaitNext")

\* A variant of the Next arm that looks at the cursor itself and asks the
\* response for its continuation only when there is one.
arm_next_call_checked(st) ==
    LET t == take_next(st.mode) IN
    IF t.panic THEN [st EXCEPT !.pc = "panicked"]
    ELSE IF t.val[1].pagination = None
         THEN [st EXCEPT !.mode = t.mode, !.pc = "ended"]
         ELSE issue([st EXCEPT !.mode = t.mode,
                               !.asked = Append(@, asking(t.val[1]))],
                    next_request(t.val[1])[1], "awaitNext")

\* StateMode::Next(Some(_)) arm up to the await: the response is taken out
\* of the mode and asked for its continuation, which is a call only when
\* the response carries a cursor and Ok(None) otherwise.
arm_next_call(st) ==
    LET t == take_next(st.mode) IN
    IF t.panic THEN [st EXCEPT !.pc = "panicked"]
    ELSE LET nr  == next_request(t.val[1])
             st1 == [st EXCEPT !.mode = t.mode, !.asked = Append(@, asking(t.val[1]))]
         IN  IF nr = None
             THEN [st1 EXCEPT !.pc = "ended"]
             ELSE issue(st1, nr[1], "awaitNext")

\* A variant of the Next arm that skips a page without items: when the page
\* carries a cursor its continuation is called at once.
arm_next_resume_skip(sv, st) ==
    LET req == CHOOSE r \in st.inflight : TRUE
        f   == req_get(sv, req)
        st1 == [st EXCEPT !.inflight = @ \ {req}]
    IN  IF ~f.ok
        THEN [st1 EXCEPT !.out = Append(@, Err(f.err)), !.mode = failed,
                         !.pc = "idle"]
        ELSE LET resp == f.resp[1]
                 deq  == fun(resp.data)
                 st2  == [st1 EXCEPT !.fetched = Append(@, PageOf(resp))]
             IN  IF deq = <<>>
                 THEN IF next_request(resp) = None
                      THEN [st2 EXCEPT !.pc = "ended"]
                      ELSE issue(st2, next_request(resp)[1], "awaitNext")
                 ELSE LET p == pop_front(deq) IN
                      [st2 EXCEPT !.out = Append(@, Ok(p.item)),
                                  !.mode = process(resp, p.rest),
                                  !.pc = "idle"]

\* A variant of the Next arm that reports every failed continuation call as
\* a transport error, whatever error the executor returned.
arm_next_resume_wrap(sv, st) ==
    LET req == CHOOSE r \in st.inflight : TRUE
        f   == req_get(sv, req)
        st1 == [st EXCEPT !.inflight = @ \ {req}]
    IN  IF ~f.ok
        THEN [st1 EXCEPT !.out = Append(@, Err("transport")), !.mode = failed,
                         !.pc = "idle"]
        ELSE LET resp == f.resp[1]
                 deq  == fun(resp.data)
                 st2  == [st1 EXCEPT !.fetched = Append(@, PageOf(resp))]
             IN  IF deq = <<>>
                 THEN [st2 EXCEPT !.pc = "ended"]
                 ELSE LET p == pop_front(deq) IN
                      [st2 EXCEPT !.out = Append(@, Ok(p.item)),
                                  !.mode = process(resp, p.rest),
                                  !.pc = "idle"]

\* A variant of the Next arm that ends the stream when the continuation
\* call fails, without handing the error to the consumer.
arm_next_resume_swallow(sv, st) ==
    LET req == CHOOSE r \in st.inflight : TRUE
        f   == req_get(sv, req)
        st1 == [st EXCEPT !.inflight = @ \ {req}]
    IN  IF ~f.ok
        THEN [st1 EXCEPT !.mode = failed, !.pc = "ended"]
        ELSE LET resp == f.resp[1]
                 deq  == fun(resp.data)
                 st2  == [st1 EXCEPT !.fetched = Append(@, PageOf(resp))]
             IN  IF deq = <<>>
                 THEN [st2 EXCEPT !.pc = "ended"]
                 ELSE LET p == pop_front(deq) IN
                      [st2 EXCEPT !.out = Append(@, Ok(p.item)),
                                  !.mode = process(resp, p.rest),
                                  !.pc = "idle"]

\* A variant of the Next arm that stores the new page's items with the
\* response it took at the start of the pull, not with the new response.
arm_next_resume_stale(sv, st) ==
    LET req == CHOOSE r \in st.inflight : TRUE
        f   == req_get(sv, req)
        st1 == [st EXCEPT !.inflight = @ \ {req}]
        old == req_get(sv, st.calls[Len(st.calls) - 1]).resp[1]
    IN  IF ~f.ok
        THEN [st1 EXCEPT !.out = Append(@, Err(f.err)), !.mode = failed,
                         !.pc = "idle"]
        ELSE LET resp == f.resp[1]
                 deq  == fun(resp.data)
                 st2  == [st1 EXCEPT !.fetched = Append(@, PageOf(resp))]
             IN  IF deq = <<>>
                 THEN [st2 EXCEPT !.pc = "ended"]
                 ELSE LET p == pop_front(deq) IN
                      [st2 EXCEPT !.out = Append(@, Ok(p.item)),
                                  !.mode = process(old, p.rest),
                                  !.pc = "idle"]

\* StateMode::Next(Some(_)) arm after the await.
arm_next_resume(sv, st) ==
    LET req == CHOOSE r \in st.inflight : TRUE
        f   == req_get(sv, req)
        st1 == [st EXCEPT !.inflight = @ \ {req}]
    IN  IF ~f.ok
        THEN [st1 EXCEPT !.out = Append(@, Err(f.err)), !.mode = failed,
                         !.pc = "idle"]
        ELSE LET resp == f.resp[1]
                 deq  == fun(resp.data)
                 st2  == [st1 EXCEPT !.fetched = Append(@, PageOf(resp))]
             IN  IF deq = <<>>
                 THEN [st2 EXCEPT !.pc = "ended"]
                 ELSE LET p == pop_front(deq) IN
                      [st2 EXCEPT !.out = Append(@, Ok(p.item)),
                                  !.mode = process(resp, p.rest),
                                  !.pc = "idle"]

\* A variant of the fallthrough arm that starts the stream over: a pull in
\* Failed puts the initial request back.
arm_other_restart(st) == [st EXCEPT !.mode = ModeReq(Some(st.calls[1]))]

\* The fallthrough arm: todo!("failed to process request").
arm_other(st) == [st EXCEPT !.pc = "panicked"]

\* The consumer begins a pull; the unfold closure runs the arm its mode
\* selects.
begin(st) == [st EXCEPT !.pulls = @ + 1]

Init ==
    /\ server \in Servers
    /\ stream = [s \in {1} |-> make_stream(Request(None))]
    /\ token = Token(Some(1))
    /\ op = NoOp

PullReq(s) ==
    /\ stream[s].pc = "idle"
    /\ stream[s].mode.tag = "Req" /\ stream[s].mode.req # None
    /\ stream' = [stream EXCEPT ![s] = arm_req_call(begin(@))]
    /\ UNCHANGED <<server, token, op>>

ReqReturn(s) ==
    /\ stream[s].pc = "awaitReq"
    /\ stream[s].inflight # {}
    /\ stream' = [stream EXCEPT ![s] = arm_req_resume(server, @)]
    /\ UNCHANGED <<server, token, op>>

\* A variant of the Cont arm's pull in which the State is one value shared by
\* every stream instance instead of being owned by the instance pulled.
PullCont_shared(s) ==
    /\ stream[s].pc = "idle"
    /\ stream[s].mode.tag = "Cont"
    /\ stream' = [t \in Instances |-> arm_cont(begin(stream[s]))]
    /\ UNCHANGED <<server, token, op>>

PullCont(s) ==
    /\ stream[s].pc = "idle"
    /\ stream[s].mode.tag = "Cont"
    /\ stream' = [stream EXCEPT ![s] = arm_cont(begin(@))]
    /\ UNCHANGED <<server, token, op>>

PullNext(s) ==
    /\ stream[s].pc = "idle"
    /\ stream[s].mode.tag = "Next" /\ stream[s].mode.resp # None
    /\ stream' = [stream EXCEPT ![s] = arm_next_call(begin(@))]
    /\ UNCHANGED <<server, token, op>>

NextReturn(s) ==
    /\ stream[s].pc = "awaitNext"
    /\ stream[s].inflight # {}
    /\ stream' = [stream EXCEPT ![s] = arm_next_resume(server, @)]
    /\ UNCHANGED <<server, token, op>>

PullOther(s) ==
    /\ stream[s].pc = "idle"
    /\ ~(stream[s].mode.tag = "Req" /\ stream[s].mode.req # None)
    /\ stream[s].mode.tag # "Cont"
    /\ ~(stream[s].mode.tag = "Next" /\ stream[s].mode.resp # None)
    /\ stream[s].mode.tag # "Once"
    /\ stream' = [stream EXCEPT ![s] = arm_other(begin(@))]
    /\ UNCHANGED <<server, token, op>>

\* The consumer drops the stream: the state and any awaited call future
\* are released, nothing is awaited further.  A call abandoned in flight
\* stays in `inflight`: its answer is never delivered.
Drop(s) ==
    /\ stream[s].pc \in {"idle", "awaitReq", "awaitNext"}
    /\ stream' = [stream EXCEPT ![s] = [@ EXCEPT !.pc = "dropped"]]
    /\ UNCHANGED <<server, token, op>>

Next ==
    \/ \E s \in Instances : PullReq(s)
    \/ \E s \in Instances : ReqReturn(s)
    \/ \E s \in Instances : PullCont(s)
    \/ \E s \in Instances : PullNext(s)
    \/ \E s \in Instances : NextReturn(s)
    \/ \E s \in Instances : PullOther(s)
    \/ \E s \in Instances : Drop(s)

Spec == Init /\ [][Next]_vars

\* A consumer that keeps pulling and never drops the stream.
NextPulling ==
    \/ \E s \in Instances : PullReq(s)
    \/ \E s \in Instances : ReqReturn(s)
    \/ \E s \in Instances : PullCont(s)
    \/ \E s \in Instances : PullNext(s)
    \/ \E s \in Instances : NextReturn(s)
    \/ \E s \in Instances : PullOther(s)

\* The consumer keeps pulling and every issued call eventually returns.
SpecLive == Init /\ [][NextPulling]_vars /\ WF_vars(NextPulling)

\* Two streams made from the same request, sharing executor and credential.
InitTwo ==
    /\ server \in {sv \in Servers : Len(sv) <= MaxPagesTwo}
    /\ stream = [s \in {1, 2} |-> make_stream(Request(None))]
    /\ token = Token(Some(1))
    /\ op = NoOp

SpecTwo == InitTwo /\ [][Next]_vars

\* ---- streams of the identity helpers -------------------------------------
\* The requests the identity helpers build from the credential's user id.
GetFollowedStreamsRequest(user_id) ==
    [endpoint |-> "streams/followed", user_id |-> user_id, after |-> None]

GetBroadcasterSubscriptionsRequest(broadcaster_id) ==
    [endpoint |-> "subscriptions", broadcaster_id |-> broadcaster_id, after |-> None]

\* futures::stream::once: a stream of the one item, made without any call.
once(item) ==
    [mode     |-> [tag |-> "Once", req |-> None, resp |-> None, deq |-> <<>>,
                   item |-> Some(item)],
     pc       |-> "idle",
     inflight |-> {},
     calls    |-> <<>>,
     out      |-> <<>>,
     pulls    |-> 0,
     fetched  |-> <<>>,
     asked    |-> <<>>]

\* A pull of a once stream: the item on the first pull, the end afterwards.
poll_once(st) ==
    IF st.mode.item # None
    THEN [st EXCEPT !.out = Append(@, st.mode.item[1]), !.mode.item = None]
    ELSE [st EXCEPT !.pc = "ended"]

\* A variant of get_followed_streams that falls back to the default user id
\* when the credential reports none.
get_followed_streams_default(tok) ==
    make_stream(GetFollowedStreamsRequest(IF tok.user_id = None THEN 0
                                          ELSE tok.user_id[1]))

\* HelixClient::get_followed_streams
get_followed_streams(tok) ==
    IF tok.user_id = None
    THEN once(Err(Custom("no user_id found on token")))
    ELSE make_stream(GetFollowedStreamsRequest(tok.user_id[1]))

\* HelixClient::get_broadcaster_subscriptions
get_broadcaster_subscriptions(tok) ==
    IF tok.user_id = None
    THEN once(Err(Custom("no user_id found on token")))
    ELSE make_stream(GetBroadcasterSubscriptionsRequest(tok.user_id[1]))

InitIdentity ==
    /\ server \in {sv \in Servers : Len(sv) <= MaxPagesTwo}
    /\ token \in Tokens
    /\ \/ /\ op = Op("get_followed_streams", None, "done")
          /\ stream = [s \in {1} |-> get_followed_streams(token)]
       \/ /\ op = Op("get_broadcaster_subscriptions", None, "done")
          /\ stream = [s \in {1} |-> get_broadcaster_subscriptions(token)]

PullOnce(s) ==
    /\ stream[s].pc = "idle"
    /\ stream[s].mode.tag = "Once"
    /\ stream' = [stream EXCEPT ![s] = poll_once(begin(@))]
    /\ UNCHANGED <<server, token, op>>

NextIdentity ==
    \/ \E s \in Instances : PullReq(s)
    \/ \E s \in Instances : ReqReturn(s)
    \/ \E s \in Instances : PullCont(s)
    \/ \E s \in Instances : PullNext(s)
    \/ \E s \in Instances : NextReturn(s)
    \/ \E s \in Instances : PullOther(s)
    \/ \E s \in Instances : PullOnce(s)
    \/ \E s \in Instances : Drop(s)

SpecIdentity == InitIdentity /\ [][NextIdentity]_vars

\* ---- the from_login helpers ----------------------------------------------
Logins == {"a", "b"}

\* Result<T, ClientError> of a convenience function.
ROk(v) == [ok |-> TRUE, val |-> Some(v), err |-> "none"]
RErr(e) == [ok |-> FALSE, val |-> None, err |-> e]

\* What the executor answers to one call outside a stream: an error, or a
\* response with its data and its total.
AOk(data, total) == [ok |-> TRUE, data |-> data, total |-> total, err |-> "none"]
AErr(e) == [ok |-> FALSE, data |-> <<>>, total |-> 0, err |-> e]

UserAnswers ==
    {AErr(e) : e \in ErrorKinds}
        \cup {AOk(d, 0) : d \in SeqsUpTo({[id |-> u] : u \in UserIds}, 2)}

DataAnswers ==
    {AErr(e) : e \in ErrorKinds}
        \cup {AOk(d, t) : d \in SeqsUpTo(1..2, MaxLen), t \in 0..1}

\* The requests of the helpers.
GetUsersRequest_login(login) == [endpoint |-> "users", login |-> login]
GetChannelInformationRequest(id) == [endpoint |-> "channels", broadcaster_id |-> id]
GetUsersFollowsRequest_followers(id) == [endpoint |-> "users/follows", to_id |-> id]
GetChannelEmotesRequest(id) == [endpoint |-> "chat/emotes", broadcaster_id |-> id]

\* Response::first: the first element of the data, if any.
first(ans) == IF ans.data = <<>> THEN None ELSE Some(ans.data[1])

\* get_user_from_login, from the answer to its call.
get_user_from_login(ans) == IF ans.ok THEN ROk(first(ans)) ELSE RErr(ans.err)

\* get_channel_from_id, get_total_followers_from_id and
\* get_channel_emotes_from_id, each from the answer to its call.
get_channel_from_id(ans) == IF ans.ok THEN ROk(first(ans)) ELSE RErr(ans.err)
get_total_followers_from_id(ans) == IF ans.ok THEN ROk(ans.total) ELSE RErr(ans.err)
get_channel_emotes_from_id(ans) == IF ans.ok THEN ROk(ans.data) ELSE RErr(ans.err)

\* Result::map(Some)
map_Some(r) == IF r.ok THEN ROk(Some(r.val[1])) ELSE r

\* The request of the second call of a from_login helper.
from_id_request(name, id) ==
    IF name = "get_channel_from_login" THEN GetChannelInformationRequest(id)
    ELSE IF name = "get_total_followers_from_login" THEN GetUsersFollowsRequest_followers(id)
    ELSE GetChannelEmotesRequest(id)

\* The helper hands a request to the executor and awaits the answer.
op_call(o, req, at) == [o EXCEPT !.calls = Append(@, req), !.pc = at]

\* The helper returns.
op_return(o, r) == [o EXCEPT !.result = Some(r), !.pc = "done"]

\* A from_login helper up to its first await: the user lookup.
from_login_start(o) == op_call(o, GetUsersRequest_login(o.arg), "awaitUser")

\* A variant of the from_login helpers that takes a failed user lookup for
\* an absent user.
from_login_user_swallow(o, ans) ==
    LET u  == get_user_from_login(ans)
        o1 == [o EXCEPT !.answers = Append(@, ans)]
    IN  IF ~u.ok \/ u.val[1] = None THEN op_return(o1, ROk(None))
        ELSE op_call(o1, from_id_request(o.name, u.val[1][1].id), "awaitSecond")

\* A from_login helper after the user lookup returned: the error is passed
\* on by `?`, an absent user gives Ok(None), a user leads to the second call
\* with the user's id.
from_login_user(o, ans) ==
    LET u  == get_user_from_login(ans)
        o1 == [o EXCEPT !.answers = Append(@, ans)]
    IN  IF ~u.ok THEN op_return(o1, RErr(u.err))
        ELSE IF u.val[1] = None THEN op_return(o1, ROk(None))
        ELSE op_call(o1, from_id_request(o.name, u.val[1][1].id), "awaitSecond")

\* A from_login helper after its second call returned.
from_login_second(o, ans) ==
    LET o1 == [o EXCEPT !.answers = Append(@, ans)] IN
    IF o.name = "get_channel_from_login"
    THEN op_return(o1, get_channel_from_id(ans))
    ELSE IF o.name = "get_total_followers_from_login"
    THEN op_return(o1, map_Some(get_total_followers_from_id(ans)))
    ELSE op_return(o1, map_Some(get_channel_emotes_from_id(ans)))

\* No stream and no paginated server is involved in a helper that returns a
\* plain result.
NoStreams == <<>>
NoPages == <<>>

InitFromLogin ==
    /\ server = NoPages
    /\ stream = NoStreams
    /\ token = Token(Some(1))
    /\ \E name \in {"get_channel_from_login", "get_total_followers_from_login",
                     "get_channel_emotes_from_login"}, login \in Logins :
          op = Op(name, login, "start")

FromLoginStart ==
    /\ op.pc = "start"
    /\ op' = from_login_start(op)
    /\ UNCHANGED <<server, stream, token>>

FromLoginUser ==
    /\ op.pc = "awaitUser"
    /\ \E ans \in UserAnswers : op' = from_login_user(op, ans)
    /\ UNCHANGED <<server, stream, token>>

FromLoginSecond ==
    /\ op.pc = "awaitSecond"
    /\ \E ans \in DataAnswers : op' = from_login_second(op, ans)
    /\ UNCHANGED <<server, stream, token>>

NextFromLogin == FromLoginStart \/ FromLoginUser \/ FromLoginSecond

SpecFromLogin == InitFromLogin /\ [][NextFromLogin]_vars

\* ---- get_games_by_id -------------------------------------------------------
MaxGameIds == 100      \* ids one call may carry
TakeIds == 101         \* ids taken from the input
MaxIdsGiven == 103     \* ids a caller of the model gives at most

\* Iterator::take(n).collect()
take(ids, n) == SubSeq(ids, 1, IF Len(ids) < n THEN Len(ids) ELSE n)

GetGamesRequest_ids(ids) == [endpoint |-> "games", id |-> ids]

\* The games an answer can hold; two may share an id.
Games == {[id |-> i, name |-> n] : i \in 1..2, n \in {"x", "y"}}

GameAnswers ==
    {AErr(e) : e \in ErrorKinds}
        \cup {AOk(d, 0) : d \in {<<>>, <<[id |-> 1, name |-> "x"]>>,
                                  <<[id |-> 1, name |-> "x"], [id |-> 2, name |-> "y"]>>,
                                  <<[id |-> 1, name |-> "x"], [id |-> 1, name |-> "y"]>>}}

\* Iterator::collect into a HashMap keyed by the game id: a later game
\* replaces an earlier one with the same id.
collect_by_id(data) ==
    [i \in {data[k].id : k \in 1..Len(data)} |->
        LET last == CHOOSE k \in 1..Len(data) :
                        /\ data[k].id = i
                        /\ \A j \in (k + 1)..Len(data) : data[j].id # i
        IN  data[last]]

\* A variant of get_games_by_id that takes 100 ids from the input, so that
\* the length check never fires.
get_games_by_id_start_take100(o) ==
    LET ids == take(o.arg, MaxGameIds) IN
    IF Len(ids) > MaxGameIds
    THEN op_return(o, RErr(Custom("too many IDs, max 100")))
    ELSE op_call(o, GetGamesRequest_ids(ids), "awaitGames")

\* get_games_by_id up to its await.
get_games_by_id_start(o) ==
    LET ids == take(o.arg, TakeIds) IN
    IF Len(ids) > MaxGameIds
    THEN op_return(o, RErr(Custom("too many IDs, max 100")))
    ELSE op_call(o, GetGamesRequest_ids(ids), "awaitGames")

\* get_games_by_id after its call returned.
get_games_by_id_return(o, ans) ==
    LET o1 == [o EXCEPT !.answers = Append(@, ans)] IN
    IF ~ans.ok THEN op_return(o1, RErr(ans.err))
    ELSE op_return(o1, ROk(collect_by_id(ans.data)))

InitGames ==
    /\ server = NoPages
    /\ stream = NoStreams
    /\ token = Token(Some(1))
    /\ \E n \in 0..MaxIdsGiven : op = Op("get_games_by_id", [i \in 1..n |-> i], "start")

GamesStart ==
    /\ op.pc = "start"
    /\ op' = get_games_by_id_start(op)
    /\ UNCHANGED <<server, stream, token>>

GamesReturn ==
    /\ op.pc = "awaitGames"
    /\ \E ans \in GameAnswers : op' = get_games_by_id_return(op, ans)
    /\ UNCHANGED <<server, stream, token>>

NextGames == GamesStart \/ GamesReturn

SpecGames == InitGames /\ [][NextGames]_vars

\* ---- delete_chat_message, delete_all_chat_message --------------------------
NO_CONTENT == 204

\* The statuses and bodies a reply to a DELETE can carry.
StatusCodes == {200, 202, 204, 400, 401, 404, 500}
Bodies == {"", "Bad Request"}
MsgIds == {"abc-123-def", "m2"}

\* DeleteChatMessagesRequest::new: message_id takes its default.
DeleteChatMessagesRequest(broadcaster_id, moderator_id) ==
    [endpoint |-> "moderation/chat", broadcaster_id |-> broadcaster_id,
     moderator_id |-> moderator_id, message_id |-> None]

\* DeleteChatMessagesRequest::message_id
with_message_id(req, message_id) == [req EXCEPT !.message_id = Some(message_id)]

\* Request::get_uri: the path, then one query pair per field that is set, in
\* field order.
get_uri(req) ==
    [path  |-> req.endpoint,
     query |-> <<  <<"broadcaster_id", req.broadcaster_id>>,
                   <<"moderator_id", req.moderator_id>>  >>
               \o (IF req.message_id = None THEN <<>>
                   ELSE <<  <<"message_id", req.message_id[1]>>  >>)]

\* The values a URI carries for one query parameter.
query_values(uri, key) ==
    {uri.query[i][2] : i \in {j \in 1..Len(uri.query) : uri.query[j][1] = key}}

\* Result<helix::Response, HelixRequestDeleteError>
POk(resp) == [ok |-> TRUE, resp |-> Some(resp), err |-> None]
PErr(e) == [ok |-> FALSE, resp |-> None, err |-> Some(e)]

InvalidResponse(reason, response, status, uri) ==
    [kind |-> "InvalidResponse", reason |-> reason, response |-> response,
     status |-> status, uri |-> uri]

\* A variant of parse_inner_response that takes every 2xx status for success.
parse_inner_response_any2xx(request, uri, response, status) ==
    IF status \in 200..299
    THEN POk([data |-> "Success", pagination |-> None, request |-> request,
              total |-> None, other |-> None])
    ELSE PErr(InvalidResponse("unexpected status", response, status, uri))

\* RequestDelete::parse_inner_response for DeleteChatMessagesRequest
parse_inner_response(request, uri, response, status) ==
    IF status = NO_CONTENT
    THEN POk([data |-> "Success", pagination |-> None, request |-> request,
              total |-> None, other |-> None])
    ELSE PErr(InvalidResponse("unexpected status", response, status, uri))

\* What comes back for one DELETE: a transport failure, or an HTTP reply.
NoReply(e) == [ok |-> FALSE, status |-> 0, body |-> "", err |-> e]
Reply(status, body) == [ok |-> TRUE, status |-> status, body |-> body, err |-> "none"]
Replies ==
    {NoReply(e) : e \in ErrorKinds}
        \cup {Reply(st, b) : st \in StatusCodes, b \in Bodies}

\* HelixClient::req_delete up to its await: the request goes out under its
\* URI.
req_delete_send(o, req) ==
    op_call(o, [req |-> req, uri |-> get_uri(req)], "awaitDelete")

\* HelixClient::req_delete after its await: a reply that arrived is parsed.
req_delete_parse(call, reply) ==
    IF ~reply.ok THEN PErr(reply.err)
    ELSE parse_inner_response(Some(call.req), call.uri, reply.body, reply.status)

\* A variant of delete_chat_message that leaves message_id unset.
delete_chat_message_start_all(o) ==
    req_delete_send(o, DeleteChatMessagesRequest(o.arg.broadcaster_id, o.arg.moderator_id))

\* delete_chat_message up to its await.
delete_chat_message_start(o) ==
    req_delete_send(o, with_message_id(
        DeleteChatMessagesRequest(o.arg.broadcaster_id, o.arg.moderator_id),
        o.arg.message_id))

\* delete_all_chat_message up to its await.
delete_all_chat_message_start(o) ==
    req_delete_send(o, DeleteChatMessagesRequest(o.arg.broadcaster_id, o.arg.moderator_id))

\* Either helper after its await: Ok(self.req_delete(req, token).await?.data)
delete_return(o, reply) ==
    LET value == req_delete_parse(o.calls[Len(o.calls)], reply)
        o1    == [o EXCEPT !.answers = Append(@, [reply |-> reply, value |-> value])]
    IN  IF value.ok THEN op_return(o1, ROk(value.resp[1].data))
        ELSE op_return(o1, RErr(value.err[1]))

InitDelete ==
    /\ server = NoPages
    /\ stream = NoStreams
    /\ token = Token(Some(1))
    /\ \E b \in UserIds, m \in UserIds :
          \/ \E id \in MsgIds :
                op = Op("delete_chat_message",
                        [broadcaster_id |-> b, moderator_id |-> m, message_id |-> id],
                        "start")
          \/ op = Op("delete_all_chat_message",
                     [broadcaster_id |-> b, moderator_id |-> m], "start")

DeleteChatMessage ==
    /\ op.name = "delete_chat_message"
    /\ op.pc = "start"
    /\ op' = delete_chat_message_start(op)
    /\ UNCHANGED <<server, stream, token>>

DeleteAllChatMessage ==
    /\ op.name = "delete_all_chat_message"
    /\ op.pc = "start"
    /\ op' = delete_all_chat_message_start(op)
    /\ UNCHANGED <<server, stream, token>>

DeleteReturn ==
    /\ op.pc = "awaitDelete"
    /\ \E reply \in Replies : op' = delete_return(op, reply)
    /\ UNCHANGED <<server, stream, token>>

NextDelete == DeleteChatMessage \/ DeleteAllChatMessage \/ DeleteReturn

SpecDelete == InitDelete /\ [][NextDelete]_vars

\* ---- get_chatters ----------------------------------------------------------
DefaultFirst == 100      \* chatters per call when first is not sent
MaxFirst == 1000         \* the most chatters the endpoint allows per call
MaxBatchGiven == 1001    \* the largest batch_size a caller of the model gives

BatchSizes == {0, 1, DefaultFirst, MaxFirst, MaxBatchGiven}

\* GetChattersRequest::new: first and after take their defaults.
GetChattersRequest(broadcaster_id, moderator_id) ==
    [endpoint |-> "chat/chatters", broadcaster_id |-> broadcaster_id,
     moderator_id |-> moderator_id, first |-> None, after |-> None]

\* HelixClient::get_chatters: batch_size goes into first as it is.
get_chatters(broadcaster_id, moderator_id, batch_size) ==
    make_stream([GetChattersRequest(broadcaster_id, moderator_id)
                    EXCEPT !.first = batch_size])

\* The chatters one page request asks for: what first says, the default of
\* the endpoint when first is not sent.
first_asked(req) == IF req.first = None THEN DefaultFirst ELSE req.first[1]

InitChatters ==
    /\ server \in {sv \in Servers : Len(sv) <= MaxPagesTwo}
    /\ token = Token(Some(1))
    /\ \E batch_size \in {None} \cup {Some(n) : n \in BatchSizes} :
          /\ op = Op("get_chatters", batch_size, "done")
          /\ stream = [s \in {1} |-> get_chatters(1, 1, batch_size)]

SpecChatters == InitChatters /\ [][Next]_vars

\* ---- try_collect over a stream ----------------------------------------------
\* TryStreamExt::try_collect polls the stream while the items are Ok.
collecting(o, st) ==
    /\ o.pc = "polling"
    /\ \A i \in 1..Len(st.out) : st.out[i].ok

\* The items collected so far.
collected(st) == [i \in 1..Len(st.out) |-> st.out[i].item]

InitCollect ==
    /\ server \in Servers
    /\ stream = [s \in {1} |-> make_stream(Request(None))]
    /\ token = Token(Some(1))
    /\ op = Op("try_collect", None, "polling")

CollectPullReq(s) == collecting(op, stream[s]) /\ PullReq(s)
CollectReqReturn(s) == collecting(op, stream[s]) /\ ReqReturn(s)
CollectPullCont(s) == collecting(op, stream[s]) /\ PullCont(s)
CollectPullNext(s) == collecting(op, stream[s]) /\ PullNext(s)
CollectNextReturn(s) == collecting(op, stream[s]) /\ NextReturn(s)

\* The stream reported its end: try_collect returns what it collected.
CollectOk(s) ==
    /\ collecting(op, stream[s])
    /\ stream[s].pc = "ended"
    /\ op' = op_return(op, ROk(collected(stream[s])))
    /\ UNCHANGED <<server, stream, token>>

\* The stream yielded an Err: try_collect returns it and the stream is
\* dropped with the future.
CollectErr(s) ==
    /\ op.pc = "polling"
    /\ stream[s].pc = "idle"
    /\ stream[s].out # <<>> /\ ~stream[s].out[Len(stream[s].out)].ok
    /\ op' = op_return(op, RErr(stream[s].out[Len(stream[s].out)].err))
    /\ stream' = [stream EXCEPT ![s] = [@ EXCEPT !.pc = "dropped"]]
    /\ UNCHANGED <<server, token>>

NextCollect ==
    \/ \E s \in Instances : CollectPullReq(s)
    \/ \E s \in Instances : CollectReqReturn(s)
    \/ \E s \in Instances : CollectPullCont(s)
    \/ \E s \in Instances : CollectPullNext(s)
    \/ \E s \in Instances : CollectNextReturn(s)
    \/ \E s \in Instances : CollectOk(s)
    \/ \E s \in Instances : CollectErr(s)

SpecCollect == InitCollect /\ [][NextCollect]_vars

\* ---- a stream over search_channels ------------------------------------------
Queries == {"fort", "chess"}

\* SearchChannelsRequest::query
SearchChannelsRequest_query(query) ==
    [endpoint |-> "search/channels", query |-> query, after |-> None,
     first |-> None, live_only |-> None]

\* SearchChannelsRequest::live_only
with_live_only(req, live_only) == [req EXCEPT !.live_only = Some(live_only)]

\* SearchChannelsRequest::first
with_first(req, n) == [req EXCEPT !.first = Some(n)]

\* The requests a caller builds: a query, with or without live_only and
\* first.
SearchRequests ==
    LET q == {SearchChannelsRequest_query(x) : x \in Queries}
        l == q \cup {with_live_only(r, b) : r \in q, b \in BOOLEAN}
    IN  l \cup {with_first(r, 1) : r \in l}

InitSearch ==
    /\ server \in {sv \in Servers : Len(sv) <= MaxPagesTwo}
    /\ token = Token(Some(1))
    /\ \E req \in SearchRequests :
          /\ op = Op("make_stream", Some(req), "done")
          /\ stream = [s \in {1} |-> make_stream(req)]

SpecSearch == InitSearch /\ [][Next]_vars

\* ---- send_chat_announcement -------------------------------------------------
\* helix::chat::AnnouncementColor and the colours a caller may pass.
AnnouncementColors == {"blue", "green", "orange", "purple", "primary"}
ColorsGiven == AnnouncementColors \cup {"red", ""}
Messages == {"hello", "bye"}

\* The TryInto conversion of the colour.
try_into_color(color) ==
    IF color \in AnnouncementColors THEN ROk(color) ELSE RErr("invalid color")

SendChatAnnouncementRequest(broadcaster_id, moderator_id) ==
    [endpoint |-> "chat/announcements", broadcaster_id |-> broadcaster_id,
     moderator_id |-> moderator_id]

\* SendChatAnnouncementBody::new: the message and the converted colour, or
\* the error of the conversion.
SendChatAnnouncementBody(message, color) ==
    LET c == try_into_color(color) IN
    IF c.ok THEN ROk([message |-> message, color |-> c.val[1]]) ELSE RErr(c.err)

\* ClientExtError
ClientError(e) == [variant |-> "ClientError", err |-> e]
Other(e) == [variant |-> "Other", err |-> e]

\* What the executor answers to the POST: an error, or the response whose
\* data is SendChatAnnouncementResponse::Success.
PostAnswers ==
    {[ok |-> FALSE, data |-> "none", err |-> e] : e \in ErrorKinds}
        \cup {[ok |-> TRUE, data |-> "Success", err |-> "none"]}

\* A variant of send_chat_announcement that falls back to the primary
\* colour when the conversion fails.
send_chat_announcement_start_fallback(o) ==
    LET req  == SendChatAnnouncementRequest(o.arg.broadcaster_id, o.arg.moderator_id)
        body == SendChatAnnouncementBody(o.arg.message, o.arg.color)
    IN  IF ~body.ok
        THEN op_call(o, [req |-> req,
                         body |-> [message |-> o.arg.message, color |-> "primary"]],
                     "awaitPost")
        ELSE op_call(o, [req |-> req, body |-> body.val[1]], "awaitPost")

\* send_chat_announcement up to its await.
send_chat_announcement_start(o) ==
    LET req  == SendChatAnnouncementRequest(o.arg.broadcaster_id, o.arg.moderator_id)
        body == SendChatAnnouncementBody(o.arg.message, o.arg.color)
    IN  IF ~body.ok
        THEN op_return(o, RErr(Other(body.err)))
        ELSE op_call(o, [req |-> req, body |-> body.val[1]], "awaitPost")

\* send_chat_announcement after its await.
send_chat_announcement_return(o, ans) ==
    LET o1 == [o EXCEPT !.answers = Append(@, ans)] IN
    IF ~ans.ok THEN op_return(o1, RErr(ClientError(ans.err)))
    ELSE op_return(o1, ROk(ans.data))

InitAnnounce ==
    /\ server = NoPages
    /\ stream = NoStreams
    /\ token = Token(Some(1))
    /\ \E b \in UserIds, m \in UserIds, msg \in Messages, color \in ColorsGiven :
          op = Op("send_chat_announcement",
                  [broadcaster_id |-> b, moderator_id |-> m, message |-> msg,
                   color |-> color], "start")

AnnounceStart ==
    /\ op.pc = "start"
    /\ op' = send_chat_announcement_start(op)
    /\ UNCHANGED <<server, stream, token>>

AnnounceReturn ==
    /\ op.pc = "awaitPost"
    /\ \E ans \in PostAnswers : op' = send_chat_announcement_return(op, ans)
    /\ UNCHANGED <<server, stream, token>>

NextAnnounce == AnnounceStart \/ AnnounceReturn

SpecAnnounce == InitAnnounce /\ [][NextAnnounce]_vars

TypeOK ==
    /\ server \in Servers
    /\ \A s \in Instances :
        /\ stream[s].pc \in {"idle", "awaitReq", "awaitNext", "ended", "panicked", "dropped"}
        /\ stream[s].mode.tag \in {"Req", "Cont", "Next", "Failed"}
        /\ stream[s].pulls \in Nat
        /\ \A i \in 1..Len(stream[s].out) :
              IF stream[s].out[i].ok THEN stream[s].out[i].item \in Items
              ELSE stream[s].out[i].err \in ErrorKinds

\* ---- vocabulary of the properties ---------------------------------------
\* The items page k of a server extracts to.
PageItems(sv, k) == fun(sv[k].data)

\* The items of pages ks[1], ks[2], ... in that order.
ItemsOf(sv, ks) == Concat([i \in 1..Len(ks) |-> PageItems(sv, ks[i])])

\* The items of pages 1..n.
ItemsUpTo(sv, n) == ItemsOf(sv, [i \in 1..n |-> i])

OkSeq(items) == [i \in 1..Len(items) |-> Ok(items[i])]

HasErr(out) == \E i \in 1..Len(out) : ~out[i].ok

\* The items of the Ok results of `out`, in order.
OkItems(out) ==
    LET oks == SelectSeq(out, LAMBDA r : r.ok) IN [i \in 1..Len(oks) |-> oks[i].item]

\* A finite list of non-empty pages, none failing, with a cursor after
\* every page except the last.
WellFormed(sv) ==
    \A k \in 1..Len(sv) :
        /\ sv[k].ok
        /\ PageItems(sv, k) # <<>>
        /\ sv[k].cursor <=> (k < Len(sv))

\* The calls of a stream whose answer has been delivered to the adapter.
Returned(st) == Len(st.calls) - Cardinality(st.inflight)

\* C1: for a well-formed server, a stream pulled until it ends has yielded
\* exactly the concatenation of all pages' items, in order, and no Err.
C1_FullDrain ==
    \A s \in Instances :
        (WellFormed(server) /\ stream[s].pc = "ended")
            => stream[s].out = OkSeq(ItemsUpTo(server, Len(server)))

\* C2: for a well-formed server of N pages, a stream pulled until it ends
\* has made exactly N calls.
C2_OneCallPerPage ==
    \A s \in Instances :
        (WellFormed(server) /\ stream[s].pc = "ended")
            => Len(stream[s].calls) = Len(server)

\* The k-th call of a stream is answered without error.
CallOk(st, k) == req_get(server, st.calls[k]).ok

C4_EndAfterErr ==
    [][\A s \in Instances :
          (HasErr(stream[s].out) /\ stream'[s].pulls > stream[s].pulls)
              => /\ stream'[s].pc = "ended"
                 /\ stream'[s].out = stream[s].out
                 /\ stream'[s].calls = stream[s].calls]_vars

\* C5: before the first pull of a stream begins, no call has been issued.
C5_Lazy ==
    \A s \in Instances :
        stream[s].pulls = 0 => (stream[s].calls = <<>> /\ stream[s].inflight = {})

\* C5 witness: a freshly constructed stream, not yet pulled.
C5_Witness ==
    \E s \in Instances :
        /\ stream[s].pulls = 0
        /\ stream[s].pc = "idle"
        /\ stream[s].mode = ModeReq(Some(Request(None)))

\* C6: a pull that finds a non-empty buffer makes no call; a call is issued
\* only by a pull that begins when every item of every page fetched so far
\* has been yielded; never are two calls of one stream in flight.
C6_OnDemand ==
    /\ [][\A s \in Instances :
            /\ ( /\ stream[s].pc = "idle"
                 /\ stream[s].mode.tag = "Cont"
                 /\ stream[s].mode.deq # <<>>
                 /\ stream'[s].pulls > stream[s].pulls )
               => stream'[s].calls = stream[s].calls
            /\ (stream'[s].calls # stream[s].calls)
               => /\ stream[s].pc = "idle"
                  /\ stream'[s].pulls = stream[s].pulls + 1
                  /\ Len(stream'[s].calls) = Len(stream[s].calls) + 1
                  /\ stream[s].out = OkSeq(ItemsOf(server, stream[s].fetched))
                  /\ Len(stream[s].calls) = Len(stream[s].fetched)]_vars
    /\ [](\A s \in Instances : Cardinality(stream[s].inflight) <= 1)

\* C6 witness: the call for page 2 is in flight after both items of page 1
\* were yielded.
C6_Witness ==
    \E s \in Instances :
        /\ stream[s].pc = "awaitNext"
        /\ Len(stream[s].calls) = 2
        /\ Len(stream[s].out) = 2

\* The last page a stream fetched.
LastFetched(st) == st.fetched[Len(st.fetched)]

\* C7: after a page with at least one item and no cursor was fetched, no
\* further call is made, no Err is yielded and nothing crashes; every pull
\* yields the next item of the page until all are yielded, the pull after
\* that ends the stream, and the ended stream has yielded every item.
C7_NoCursorEnds ==
    /\ [](\A s \in Instances :
            LET st == stream[s] IN
            ( /\ st.fetched # <<>>
              /\ PageItems(server, LastFetched(st)) # <<>>
              /\ ~server[LastFetched(st)].cursor )
            => /\ Len(st.calls) = Len(st.fetched)
               /\ ~HasErr(st.out)
               /\ st.pc # "panicked"
               /\ IsPrefix(st.out, OkSeq(ItemsOf(server, st.fetched)))
               /\ st.pc = "ended" => st.out = OkSeq(ItemsOf(server, st.fetched)))
    /\ [][\A s \in Instances :
            LET st == stream[s] IN
            ( /\ st.fetched # <<>>
              /\ PageItems(server, LastFetched(st)) # <<>>
              /\ ~server[LastFetched(st)].cursor
              /\ stream'[s].pulls > st.pulls )
            => IF st.out = OkSeq(ItemsOf(server, st.fetched))
               THEN stream'[s].pc = "ended" /\ stream'[s].out = st.out
               ELSE stream'[s].pc = "idle" /\ Len(stream'[s].out) = Len(st.out) + 1]_vars

\* C7 witness: a stream ended after a second page of two items without a
\* cursor.
C7_Witness ==
    \E s \in Instances :
        /\ stream[s].pc = "ended"
        /\ Len(stream[s].fetched) = 2
        /\ Len(PageItems(server, 2)) = 2
        /\ ~server[2].cursor

\* C8: when the first page extracts to zero items, with or without a
\* cursor, the first pull ends the stream: nothing is yielded and exactly
\* one call is made.
C8_EmptyFirstPage ==
    \A s \in Instances :
        LET st == stream[s] IN
        (server[1].ok /\ PageItems(server, 1) = <<>>)
        => /\ st.out = <<>>
           /\ st.pulls <= 1
           /\ Len(st.calls) <= 1
           /\ Returned(st) >= 1 => (st.pc = "ended" /\ Len(st.calls) = 1)

\* C8 witness: a stream ended on an empty first page that carried a cursor,
\* with a second page on the server.
C8_Witness ==
    \E s \in Instances :
        /\ stream[s].pc = "ended"
        /\ PageItems(server, 1) = <<>>
        /\ server[1].ok /\ server[1].cursor
        /\ Len(server) >= 2
        /\ Len(stream[s].calls) = 1

\* C9: when a continuation page extracts to zero items but carries a
\* cursor, the stream has ended with no Err and no call beyond the one
\* that fetched that page.
C9_EmptyContinuation ==
    \A s \in Instances :
        LET st == stream[s] IN
        ( /\ Len(st.fetched) >= 2
          /\ PageItems(server, LastFetched(st)) = <<>>
          /\ server[LastFetched(st)].cursor )
        => /\ st.pc = "ended"
           /\ ~HasErr(st.out)
           /\ st.inflight = {}
           /\ Len(st.calls) = Len(st.fetched)

\* C9 witness: a stream ended on an empty second page that carried a
\* cursor, with a third page on the server.
C9_Witness ==
    \E s \in Instances :
        /\ stream[s].pc = "ended"
        /\ Len(stream[s].fetched) = 2
        /\ PageItems(server, 2) = <<>>
        /\ server[2].cursor
        /\ Len(server) = 3

\* C10: the Ok items yielded so far are a prefix of the concatenation, in
\* fetch order, of the items of the pages fetched so far.
C10_PrefixOfFetched ==
    \A s \in Instances :
        IsPrefix(OkItems(stream[s].out), ItemsOf(server, stream[s].fetched))

\* C10 witness: items of two pages yielded, the first page holding two
\* different items.
C10_Witness ==
    \E s \in Instances :
        /\ Len(stream[s].fetched) = 2
        /\ Len(OkItems(stream[s].out)) >= 3
        /\ PageItems(server, 1)[1] # PageItems(server, 1)[2]

\* C11: between pulls no call is in flight; a call is issued only by a step
\* that begins a pull; a stream dropped after a completed pull has no call
\* in flight, and a dropped stream never makes a call.
C11_AbandonSafe ==
    /\ [](\A s \in Instances :
            stream[s].pc \in {"idle", "ended"} => stream[s].inflight = {})
    /\ [][\A s \in Instances :
            /\ (stream'[s].calls # stream[s].calls)
               => (stream[s].pc = "idle" /\ stream'[s].pulls > stream[s].pulls)
            /\ (stream[s].pc = "idle" /\ stream'[s].pc = "dropped")
               => (stream'[s].inflight = {} /\ stream'[s].calls = stream[s].calls)
            /\ (stream[s].pc = "dropped")
               => (stream'[s].calls = stream[s].calls /\ stream'[s].pc = "dropped")]_vars

\* C11 witness: a stream dropped between pulls, after the last item of a
\* page with a cursor was yielded, with no call in flight.
C11_Witness ==
    \E s \in Instances :
        /\ stream[s].pc = "dropped"
        /\ stream[s].inflight = {}
        /\ stream[s].mode.tag = "Next"
        /\ stream[s].mode.resp[1].pagination # None
        /\ Len(stream[s].out) >= 2

\* C12: against a server of finitely many pages, whose calls all return, a
\* consumer that keeps pulling eventually observes end of stream or an Err.
C12_Finite ==
    <>(\A s \in Instances : stream[s].pc = "ended" \/ HasErr(stream[s].out))

\* C12 witness: a stream that ended after its third page was fetched.
C12_Witness ==
    \E s \in Instances :
        /\ stream[s].pc = "ended"
        /\ Len(stream[s].fetched) = 3
        /\ stream[s].pulls >= 5

\* One step of a stream that is pulled to its end on its own: the arm its
\* mode selects when idle, the return of its call when awaiting.
step_alone(sv, st) ==
    IF st.pc = "idle"
    THEN IF st.mode.tag = "Req" /\ st.mode.req # None THEN arm_req_call(begin(st))
         ELSE IF st.mode.tag = "Cont" THEN arm_cont(begin(st))
         ELSE IF st.mode.tag = "Next" /\ st.mode.resp # None THEN arm_next_call(begin(st))
         ELSE arm_other(begin(st))
    ELSE IF st.pc = "awaitReq" THEN arm_req_resume(sv, st)
    ELSE IF st.pc = "awaitNext" THEN arm_next_resume(sv, st)
    ELSE st

RECURSIVE Alone(_, _, _)
\* The state of a stream run alone after n steps.
Alone(sv, st, n) == IF n = 0 THEN st ELSE Alone(sv, step_alone(sv, st), n - 1)

\* No run of one stream is longer than this many steps.
MaxSteps == MaxPages * (MaxLen + 2) + 2

\* C13: with two instances interleaved in any order, every step changes the
\* state of at most one instance and leaves the server alone, and each
\* instance is always in a state of the run of a stream pulled alone: same
\* items yielded, same calls made.
C13_Independent ==
    /\ [](\A s \in Instances :
            \E n \in 0..MaxSteps :
                LET a == Alone(server, make_stream(Request(None)), n) IN
                /\ a.out = stream[s].out
                /\ a.calls = stream[s].calls
                /\ a.mode = stream[s].mode
                /\ a.fetched = stream[s].fetched
                /\ a.pulls = stream[s].pulls
                /\ stream[s].pc = "dropped" \/ a.pc = stream[s].pc)
    /\ [][/\ server' = server
          /\ \A s, t \in Instances :
                (s # t /\ stream'[s] # stream[s]) => stream'[t] = stream[t]]_vars

\* C13 witness: the two instances stand at different points of the run, one
\* ended after two pages, the other awaiting its first call.
C13_Witness ==
    /\ Instances = {1, 2}
    /\ stream[1].pc = "ended"
    /\ Len(stream[1].fetched) = 2
    /\ stream[2].pc = "awaitReq"

\* C14: when a call of a stream has returned an error, the last item the
\* stream yielded is an Err carrying exactly that error; and every Err the
\* stream yielded is that item.
C14_ErrValue ==
    \A s \in Instances :
        LET st == stream[s]
            k  == Len(st.fetched) + 1
        IN  /\ k <= Returned(st)
               => /\ st.out # <<>>
                  /\ ~req_get(server, st.calls[k]).ok
                  /\ st.out[Len(st.out)] = Err(req_get(server, st.calls[k]).err)
            /\ \A i \in 1..Len(st.out) :
                  ~st.out[i].ok => (i = Len(st.out) /\ k <= Returned(st))

\* C14 witness: the second call failed with a decode error, which the
\* stream yielded after the items of page 1.
C14_Witness ==
    \E s \in Instances :
        /\ Len(stream[s].calls) = 2
        /\ Len(stream[s].out) = 3
        /\ stream[s].out[3] = Err("decode")

\* The request an identity helper builds for user id `id`.
IdentityRequest(name, id) ==
    IF name = "get_followed_streams" THEN GetFollowedStreamsRequest(id)
    ELSE GetBroadcasterSubscriptionsRequest(id)

\* C15: get_followed_streams and get_broadcaster_subscriptions with a
\* credential without user id give a stream that makes no call, yields the
\* one Err 'no user_id found on token' on its first pull and ends on its
\* second; with a user id the stream is always in a state of make_stream
\* run on the request built from that id.
C15_IdentityHelpers ==
    \A s \in Instances :
        LET st == stream[s] IN
        IF token.user_id = None
        THEN /\ st.calls = <<>> /\ st.inflight = {}
             /\ st.out = IF st.pulls = 0 THEN <<>>
                         ELSE <<Err("no user_id found on token")>>
             /\ st.pulls <= 2
             /\ st.pc \in {"idle", "ended", "dropped"}
             /\ st.pulls = 2 => st.pc = "ended"
        ELSE \E n \in 0..MaxSteps :
                LET a == Alone(server,
                               make_stream(IdentityRequest(op.name, token.user_id[1])), n)
                IN  /\ a.out = st.out
                    /\ a.calls = st.calls
                    /\ a.mode = st.mode
                    /\ a.fetched = st.fetched
                    /\ a.pulls = st.pulls
                    /\ st.pc = "dropped" \/ a.pc = st.pc

\* C15 witness: without a user id, the stream of get_broadcaster_subscriptions
\* has yielded its one Err and ended.
C15_Witness ==
    \E s \in Instances :
        /\ token.user_id = None
        /\ op.name = "get_broadcaster_subscriptions"
        /\ stream[s].pc = "ended"
        /\ Len(stream[s].out) = 1

\* C15, second case reached: with user id 2, get_followed_streams has
\* called the executor twice for that user.
C15_WitnessWithId ==
    \E s \in Instances :
        /\ token.user_id = Some(2)
        /\ op.name = "get_followed_streams"
        /\ Len(stream[s].calls) = 2
        /\ stream[s].calls[2].user_id = 2

\* What the second call's answer amounts to as the result of the helper.
SecondOutcome(name, ans) ==
    IF ~ans.ok THEN RErr(ans.err)
    ELSE IF name = "get_channel_from_login"
         THEN ROk(IF ans.data = <<>> THEN None ELSE Some(ans.data[1]))
    ELSE IF name = "get_total_followers_from_login" THEN ROk(Some(ans.total))
    ELSE ROk(Some(ans.data))

\* C16: a from_login helper first looks the user up by the login; when the
\* lookup fails the helper has returned that error after one call, when it
\* finds no user the helper has returned Ok(None) after one call, and when
\* it finds a user exactly one second call is made, with that user's id,
\* whose outcome is the helper's result.
C16_FromLogin ==
    /\ Len(op.calls) <= 2
    /\ Len(op.calls) >= 1 => op.calls[1] = GetUsersRequest_login(op.arg)
    /\ op.pc = "done" <=> op.result # None
    /\ Len(op.answers) >= 1 =>
          LET a == op.answers[1] IN
          IF ~a.ok
          THEN op.result = Some(RErr(a.err)) /\ Len(op.calls) = 1
          ELSE IF a.data = <<>>
          THEN op.result = Some(ROk(None)) /\ Len(op.calls) = 1
          ELSE /\ Len(op.calls) = 2
               /\ op.calls[2] = from_id_request(op.name, a.data[1].id)
               /\ IF Len(op.answers) = 2
                  THEN op.result = Some(SecondOutcome(op.name, op.answers[2]))
                  ELSE op.result = None /\ op.pc = "awaitSecond"

\* C16 witness: get_total_followers_from_login found user 2 first among two
\* users and returned the total of its second call.
C16_Witness ==
    /\ op.name = "get_total_followers_from_login"
    /\ op.pc = "done"
    /\ Len(op.answers) = 2
    /\ Len(op.answers[1].data) = 2
    /\ op.calls[2].to_id = 2
    /\ op.result = Some(ROk(Some(1)))

\* C17: given more than 100 ids, get_games_by_id returns the error 'too
\* many IDs, max 100' and makes no call; given 0 to 100 ids it makes exactly
\* one call, which carries all the ids given.
C17_GamesLimit ==
    /\ op.pc = "start" => op.calls = <<>>
    /\ op.pc # "start" =>
          IF Len(op.arg) > 100
          THEN /\ op.calls = <<>>
               /\ op.pc = "done"
               /\ op.result = Some(RErr("too many IDs, max 100"))
          ELSE /\ Len(op.calls) = 1
               /\ op.calls[1].id = op.arg
               /\ op.pc = "done" => op.result # Some(RErr("too many IDs, max 100"))

\* C17 witness: 101 ids were refused.
C17_Witness ==
    /\ Len(op.arg) = 101
    /\ op.pc = "done"
    /\ op.calls = <<>>

\* C17, other side of the limit reached: 100 ids went out in one call.
C17_WitnessAtLimit ==
    /\ Len(op.arg) = 100
    /\ op.pc = "done"
    /\ Len(op.calls) = 1
    /\ Len(op.calls[1].id) = 100

\* C18: parse_inner_response of DeleteChatMessagesRequest returns Ok only
\* for status 204, and then with data Success, no pagination cursor, no total
\* and the request it was given; for every other status it returns
\* InvalidResponse with that status, the response text and the URI.
C18_ParseDelete ==
    \A i \in 1..Len(op.answers) :
        LET a    == op.answers[i]
            call == op.calls[i]
        IN  a.reply.ok =>
              IF a.reply.status = 204
              THEN /\ a.value.ok
                   /\ a.value.resp[1].data = "Success"
                   /\ a.value.resp[1].pagination = None
                   /\ a.value.resp[1].total = None
                   /\ a.value.resp[1].request = Some(call.req)
              ELSE /\ ~a.value.ok
                   /\ a.value.err[1].kind = "InvalidResponse"
                   /\ a.value.err[1].status = a.reply.status
                   /\ a.value.err[1].response = a.reply.body
                   /\ a.value.err[1].uri = call.uri

\* C18 witness: a reply with status 200 and a body was refused.
C18_Witness ==
    /\ op.pc = "done"
    /\ Len(op.answers) = 1
    /\ op.answers[1].reply.ok
    /\ op.answers[1].reply.status = 200
    /\ op.answers[1].reply.body # ""
    /\ ~op.answers[1].value.ok

\* C18, the accepting side reached: a 204 reply gave Success.
C18_WitnessNoContent ==
    /\ op.pc = "done"
    /\ Len(op.answers) = 1
    /\ op.answers[1].reply.ok
    /\ op.answers[1].reply.status = 204
    /\ op.result = Some(ROk("Success"))

\* C19: the URI of a DeleteChatMessagesRequest carries a message_id
\* parameter exactly when message_id is set; delete_all_chat_message issues
\* one request with message_id unset, delete_chat_message one request with
\* message_id set to the id given.
C19_MessageId ==
    /\ \A i \in 1..Len(op.calls) :
          query_values(op.calls[i].uri, "message_id") =
              {op.calls[i].req.message_id[k] : k \in 1..Len(op.calls[i].req.message_id)}
    /\ op.pc = "start" => op.calls = <<>>
    /\ op.pc # "start" =>
          /\ Len(op.calls) = 1
          /\ op.name = "delete_all_chat_message" => op.calls[1].req.message_id = None
          /\ op.name = "delete_chat_message" =>
                op.calls[1].req.message_id = Some(op.arg.message_id)

\* C19 witness: delete_chat_message sent its one request, with the id in
\* the URI.
C19_Witness ==
    /\ op.name = "delete_chat_message"
    /\ op.pc = "awaitDelete"
    /\ Len(op.calls) = 1
    /\ query_values(op.calls[1].uri, "message_id") = {op.arg.message_id}

\* C19, the other helper reached: delete_all_chat_message sent its one
\* request, with no message_id in the URI.
C19_WitnessAll ==
    /\ op.name = "delete_all_chat_message"
    /\ op.pc = "done"
    /\ Len(op.calls) = 1
    /\ query_values(op.calls[1].uri, "message_id") = {}

\* C20: every page request of get_chatters asks for batch_size chatters
\* when batch_size is given, for 100 when it is not given, and never for
\* more than 1000.
C20_BatchSize ==
    \A s \in Instances :
        \A i \in 1..Len(stream[s].calls) :
            LET asked == first_asked(stream[s].calls[i]) IN
            /\ op.arg # None => asked = op.arg[1]
            /\ op.arg = None => asked = 100
            /\ asked <= 1000

\* C21: a stream stands in Cont with an empty deque at the start of a pull
\* only if extraction yielded nothing from the page it holds; never after a
\* page from which at least one item was extracted.
C21_DrainingEmpty ==
    \A s \in Instances :
        (stream[s].pc = "idle" /\ stream[s].mode.tag = "Cont"
            /\ stream[s].mode.deq = <<>>)
            => fun(stream[s].mode.resp[1].data) = <<>>

\* C22 as stated: the adapter never asks a response for its continuation
\* when that response has no pagination cursor.
C22_AsksOnlyWithCursor ==
    \A s \in Instances :
        \A i \in 1..Len(stream[s].asked) : stream[s].asked[i].cursor

\* C22 amended: every pull in Next asks the retained response for its
\* continuation, with or without a cursor; when the response has no cursor
\* no call goes to the executor and the pull reports the end of the stream.
C22_AsksAlways ==
    [][\A s \in Instances :
          (stream[s].pc = "idle" /\ stream[s].mode.tag = "Next"
              /\ stream'[s].pulls = stream[s].pulls + 1)
              => LET resp == stream[s].mode.resp[1] IN
                 /\ stream'[s].asked = Append(stream[s].asked, asking(resp))
                 /\ resp.pagination = None =>
                       /\ stream'[s].calls = stream[s].calls
                       /\ stream'[s].pc = "ended"
                 /\ resp.pagination # None =>
                       /\ Len(stream'[s].calls) = Len(stream[s].calls) + 1
                       /\ stream'[s].pc = "awaitNext"]_vars

\* C22 witness: a response without a cursor was asked for its continuation
\* and the stream ended with as many calls as pages.
C22_Witness ==
    \E s \in Instances :
        /\ stream[s].pc = "ended"
        /\ stream[s].asked # <<>>
        /\ ~stream[s].asked[Len(stream[s].asked)].cursor
        /\ Len(stream[s].calls) = Len(stream[s].fetched)

\* The four states a stream can stand in between pulls.
Pending(st) == st.mode.tag = "Req" /\ st.mode.req # None
Draining(st) == st.mode.tag = "Cont"
AwaitingNext(st) == st.mode.tag = "Next" /\ st.mode.resp # None
InFailed(st) == st.mode.tag = "Failed"

\* How many of the four hold.
HowMany(st) ==
    Cardinality({i \in 1..4 : \/ i = 1 /\ Pending(st)
                              \/ i = 2 /\ Draining(st)
                              \/ i = 3 /\ AwaitingNext(st)
                              \/ i = 4 /\ InFailed(st)})

\* Between pulls (first part of C23): exactly one of Pending, Draining, AwaitingNext and
\* Failed holds, and the initial request has been issued at most once.
C23_OneState ==
    \A s \in Instances :
        /\ stream[s].pc = "idle" => HowMany(stream[s]) = 1
        /\ Cardinality({k \in 1..Len(stream[s].calls) :
                            stream[s].calls[k].after = None}) <= 1

\* Transitions only go forward (second part of C23): Pending is never re-entered once left,
\* Failed is never left, and each return to Draining holds a strictly later
\* page than any held before, so the stream never rewinds.
C23_Forward ==
    [][\A s \in Instances :
          /\ stream[s].mode.tag # "Req" => stream'[s].mode.tag # "Req"
          /\ (stream[s].mode.tag = "Req" /\ stream[s].mode.req = None)
                => ~Pending(stream'[s])
          /\ InFailed(stream[s]) => InFailed(stream'[s])
          /\ (Draining(stream'[s])
                /\ (~Draining(stream[s]) \/ stream'[s].mode.resp # stream[s].mode.resp))
                => \A i \in 1..Len(stream[s].fetched) :
                       PageOf(stream'[s].mode.resp[1]) > stream[s].fetched[i]]_vars

\* C23: both parts together.
C23_Transitions == []C23_OneState /\ C23_Forward

\* C23 witness: a stream that left Pending and came back to Draining with
\* its second page.
C23_Witness ==
    \E s \in Instances :
        /\ stream[s].pc = "idle"
        /\ Draining(stream[s])
        /\ PageOf(stream[s].mode.resp[1]) = 2
        /\ stream[s].fetched = <<1, 2>>

\* C23, Failed reached and pulled again: the mode is still Failed.
C23_WitnessFailed ==
    \E s \in Instances :
        /\ InFailed(stream[s])
        /\ stream[s].pulls > Len(stream[s].out)

\* What a try_collect consumer can see of C24: a stream in Failed has
\* handed out an Err as its last item (so the consumer pulls no more), no
\* pull has panicked, and the result is an error exactly when one of the
\* calls issued failed.
C24_CollectState ==
    \A s \in Instances :
        LET st == stream[s] IN
        /\ InFailed(st) => (st.out # <<>> /\ ~st.out[Len(st.out)].ok)
        /\ st.pc # "panicked"
        /\ op.pc = "done" =>
              (~op.result[1].ok <=> \E k \in 1..Len(st.calls) : ~CallOk(st, k))

\* C24: for a consumer that pulls until the end of the stream or the first
\* Err and then stops, no pull is made while the adapter is in Failed, and
\* the consumer's result is an error exactly when one of the calls the
\* adapter issued failed.
C24_TryCollect ==
    /\ []C24_CollectState
    /\ [][\A s \in Instances :
              InFailed(stream[s]) => stream'[s].pulls = stream[s].pulls]_vars

\* C24 witness: try_collect returned an error after collecting items of
\* an earlier page, with the adapter in Failed.
C24_Witness ==
    \E s \in Instances :
        /\ op.pc = "done"
        /\ ~op.result[1].ok
        /\ InFailed(stream[s])
        /\ Len(stream[s].out) > 1
        /\ Len(stream[s].calls) = 2

\* C24, the other result reached: try_collect returned the items of a
\* stream in which every call succeeded.
C24_WitnessOk ==
    \E s \in Instances :
        /\ op.pc = "done"
        /\ op.result[1].ok
        /\ Len(stream[s].calls) = 2

\* The state part of C25: a retained response is the answer to the last
\* call and holds the page fetched last; the i-th continuation was asked of
\* the i-th page fetched, and the call it led to carries that page's cursor.
C25_LatestRetained ==
    \A s \in Instances :
        LET st == stream[s] IN
        /\ st.mode.resp # None =>
              /\ st.fetched # <<>>
              /\ PageOf(st.mode.resp[1]) = LastFetched(st)
              /\ st.mode.resp[1] = req_get(server, st.calls[Len(st.calls)]).resp[1]
        /\ \A i \in 1..Len(st.asked) :
              /\ st.asked[i].page = st.fetched[i]
              /\ i + 1 <= Len(st.calls) => st.calls[i + 1].after = Some(st.fetched[i])

\* C25: the response the adapter retains is always that of the page fetched
\* last: draining a buffer never changes it, and the continuation after
\* page k's items is requested from page k's response.
C25_RetainedResponse ==
    /\ []C25_LatestRetained
    /\ [][\A s \in Instances :
              (stream[s].pc = "idle" /\ Draining(stream[s])
                  /\ stream'[s].pulls = stream[s].pulls + 1)
                  => stream'[s].mode.resp = stream[s].mode.resp]_vars

\* C25 witness: the second page's items are drained and its response, not
\* the first page's, waits to be asked for the third page.
C25_Witness ==
    \E s \in Instances :
        /\ stream[s].pc = "idle"
        /\ AwaitingNext(stream[s])
        /\ PageOf(stream[s].mode.resp[1]) = 2
        /\ stream[s].mode.resp[1].pagination # None
        /\ Len(stream[s].asked) = 1

\* C26: set_pagination on a SearchChannelsRequest sets after to the cursor
\* given and leaves query, first and live_only unchanged, so the request of
\* a later page differs from the original request only in its cursor: the
\* k-th call is the original request with the cursor of page k-1.
C26_OnlyCursorChanges ==
    \A s \in Instances :
        \A k \in 1..Len(stream[s].calls) :
            LET call == stream[s].calls[k]
                orig == op.arg[1]
            IN  /\ call.query = orig.query
                /\ call.first = orig.first
                /\ call.live_only = orig.live_only
                /\ call.endpoint = orig.endpoint
                /\ call.after = IF k = 1 THEN None
                                ELSE req_get(server, stream[s].calls[k - 1]).resp[1].pagination

\* C26 witness: a second page was requested for a request that has first
\* and live_only set.
C26_Witness ==
    \E s \in Instances :
        /\ Len(stream[s].calls) = 2
        /\ stream[s].calls[2].after # None
        /\ stream[s].calls[2].first # None
        /\ stream[s].calls[2].live_only = Some(TRUE)

\* C27: send_chat_announcement makes no call when the colour conversion
\* fails and returns ClientExtError::Other with the conversion error; when
\* the conversion succeeds it makes exactly one call, and a failure of that
\* call is returned as ClientExtError::ClientError.
C27_Announcement ==
    /\ op.pc = "start" => op.calls = <<>>
    /\ op.pc # "start" =>
          IF ~try_into_color(op.arg.color).ok
          THEN /\ op.calls = <<>>
               /\ op.pc = "done"
               /\ op.result = Some(RErr(Other(try_into_color(op.arg.color).err)))
          ELSE /\ Len(op.calls) = 1
               /\ op.calls[1].body.color = op.arg.color
               /\ op.pc = "done" =>
                     /\ Len(op.answers) = 1
                     /\ ~op.answers[1].ok =>
                           op.result = Some(RErr(ClientError(op.answers[1].err)))
                     /\ op.answers[1].ok => op.result[1].ok

\* C27 witness: a colour that does not convert was refused without a call.
C27_Witness ==
    /\ op.pc = "done"
    /\ op.arg.color = "red"
    /\ op.calls = <<>>
    /\ op.result[1].err.variant = "Other"

\* C27, the other error reached: the one call failed and came back as
\* ClientError.
C27_WitnessClientError ==
    /\ op.pc = "done"
    /\ Len(op.calls) = 1
    /\ ~op.result[1].ok
    /\ op.result[1].err.variant = "ClientError"

\* C28: at the start of every pull the mode is never the emptied
\* placeholder Req(None) or Next(None), which exist only inside the pull
\* that made them; no pull has panicked in take_initial or take_next or
\* fallen through with a placeholder.
C28_NoPlaceholder ==
    \A s \in Instances :
        /\ stream[s].pc = "idle" =>
              /\ ~(stream[s].mode.tag = "Req" /\ stream[s].mode.req = None)
              /\ ~(stream[s].mode.tag = "Next" /\ stream[s].mode.resp = None)
        /\ stream[s].pc = "panicked" => stream[s].mode.tag \notin {"Req", "Next"}

\* C28 witness: inside a pull of the Next arm the placeholder Next(None) is
\* in the mode while the call is awaited.
C28_Witness ==
    \E s \in Instances :
        /\ stream[s].pc = "awaitNext"
        /\ stream[s].mode.tag = "Next"
        /\ stream[s].mode.resp = None

\* C28, after such a pull: the stream stands between pulls again, with the
\* second page in Cont.
C28_WitnessAfter ==
    \E s \in Instances :
        /\ stream[s].pc = "idle"
        /\ Len(stream[s].asked) = 1
        /\ stream[s].mode.tag = "Cont"

\* The state part of C29: no pull has panicked in the Cont arm, where
\* get_next is called.
C29_NoGetNextPanic ==
    \A s \in Instances : ~(stream[s].pc = "panicked" /\ stream[s].mode.tag = "Cont")

====
